---- MODULE Spec2Model ----
(***************************************************************************)
(* Model of the matrix-iptv diagnostic scripts:                            *)
(*   scripts/benchmark_playlists.py  multi-account two-stage benchmark     *)
(*   debug_redirect.py               HEAD probe of two URLs                *)
(*   debug_stream.py                 streaming GET, first 64 bytes         *)
(*   debug_dns.py                    one DNS-over-HTTPS lookup             *)
(* A run executes one script from its first statement to its last.  The    *)
(* server is the environment: every request draws its reply from a set of  *)
(* possible replies.  Standard output and the requests put on the network  *)
(* are kept as sequences.                                                  *)
(***************************************************************************)
EXTENDS Integers, Sequences, FiniteSets, TLC

VARIABLES
    script,     \* which script this run executes
    pc,         \* position in the script
    acc,        \* index of the current loop element (account, or check call)
    out,        \* lines printed to standard output, in order
    reqs,       \* requests issued on the network, in order
    wire,       \* the reply (or failure) of the latest request
    conn,       \* debug_stream: state of the streaming connection
    bytesRead   \* debug_stream: body bytes pulled from the connection

vars == <<script, pc, acc, out, reqs, wire, conn, bytesRead>>

-----------------------------------------------------------------------------
(* Bounds of the model *)

\* longest JSON array / object / string a server returns in a full run
MaxItems == 1
\* longest JSON array / object / string returned to one streams request
\* taken on its own
MaxFilterLen == 4
\* most body bytes the streaming endpoint delivers
MaxBody == 66

-----------------------------------------------------------------------------
(* Program constants *)

accounts ==
    << [name |-> "Strong 8K", url |-> "http://pledge78502.cdn-akm.me:80",
        user |-> "7c34d33c9e21", pass |-> "037dacb169"],
       [name |-> "Trex", url |-> "http://line.offcial-trex.pro",
        user |-> "3a6aae52fb", pass |-> "39c165888139"],
       [name |-> "Strong8k2-PC", url |-> "http://zfruvync.duperab.xyz",
        user |-> "PE1S9S8U", pass |-> "11EZZUMW"],
       [name |-> "Mega OTT 1", url |-> "http://line.4smart.in",
        user |-> "45Z88W6", pass |-> "Z7PHTX3"] >>

url_ts == "http://zfruvync.duperab.xyz/live/PE1S9S8U/11EZZUMW/53504.ts"
url_m3u8 == "http://zfruvync.duperab.xyz/live/PE1S9S8U/11EZZUMW/53504.m3u8"

\* the two calls at the end of debug_redirect.py
checks == << [name |-> "TS", u |-> url_ts], [name |-> "M3U8", u |-> url_m3u8] >>

url == "http://zfruvync.duperab.xyz/live/PE1S9S8U/11EZZUMW/53504.ts"
doh_url == "https://dns.google/resolve?name=8884152.lbt4.xyz"

\* the substring the benchmark looks for in a stream's name
MSNBC == <<"M", "S", "N", "B", "C">>
\* msnbc[:3]
MaxShown == 3
\* iter_content(chunk_size=64)
chunk_size == 64

Scripts == {"benchmark", "redirect", "stream", "dns"}

-----------------------------------------------------------------------------
(* JSON values.  items holds an array's elements, an object's keys or a    *)
(* string's characters: what len() counts and what iteration yields.       *)

JSON(type, items) == [type |-> type, items |-> items]
Null == JSON("null", <<>>)
SizedTypes == {"array", "object", "string"}
ScalarTypes == {"number", "bool", "null"}

\* the value of a stream entry's "name" key
AbsentName == [tag |-> "absent", text |-> <<>>]
NullName == [tag |-> "null", text |-> <<>>]
Str(text) == [tag |-> "str", text |-> text]
NameValues ==
    { AbsentName, NullName,
      Str(<<"U", "S", ":", " ", "M", "S", "N", "B", "C">>),
      Str(<<"C", "N", "N">>) }

\* an element of a decoded container: a JSON object with a stream_id, or
\* anything that is not an object (a key of a dict, a character, a number)
Object(name, id) == [kind |-> "object", name |-> name, stream_id |-> id]
NonObject == [kind |-> "scalar", name |-> AbsentName, stream_id |-> 0]
ElementsAt(i) == {Object(n, i) : n \in NameValues} \cup {NonObject}

\* lists of exactly k elements; the element at position i has stream_id i
RECURSIVE ListsOf(_)
ListsOf(k) ==
    IF k = 0 THEN {<<>>}
    ELSE {Append(a, e) : a \in ListsOf(k - 1), e \in ElementsAt(k)}
ArraysUpTo(n) == {JSON("array", a) : a \in UNION {ListsOf(k) : k \in 0..n}}

\* objects and strings of k keys / characters, and the scalars
OtherValues(n) ==
    {JSON(t, [i \in 1..k |-> NonObject]) : t \in {"object", "string"}, k \in 0..n}
        \cup {JSON(t, <<>>) : t \in ScalarTypes}

Values(n) == ArraysUpTo(n) \cup OtherValues(n)

-----------------------------------------------------------------------------
(* Replies of the server, as seen by the HTTP client *)

Text(value) == [wellformed |-> TRUE, value |-> value]
Garbage == [wellformed |-> FALSE, value |-> Null]
NoLocation == ""

Reply(kind, exc, status, location, avail, body) ==
    [kind |-> kind, exc |-> exc, status |-> status, location |-> location,
     avail |-> avail, body |-> body]
NoReply == Reply("none", "", 0, NoLocation, 0, Garbage)
Failure(exc) == Reply("fail", exc, 0, NoLocation, 0, Garbage)
Response(status, location, avail, body) ==
    Reply("http", "", status, location, avail, body)

\* what urllib.request.urlopen can meet
UrlopenReplies(n) ==
    {Failure(e) : e \in {"URLError", "timeout"}}
        \cup {Response(200, NoLocation, 0, b) :
                b \in {Garbage} \cup {Text(v) : v \in Values(n)}}
        \cup {Response(s, NoLocation, 0, b) :
                s \in {404, 500}, b \in {Garbage, Text(JSON("array", <<>>))}}

\* what requests.head can meet
Locations == {"http://cdn.example/53504.ts"}
HeadReplies ==
    {Failure(e) : e \in {"ConnectionError", "Timeout"}}
        \cup {Response(s, l, 0, Garbage) :
                s \in {200, 302, 404}, l \in Locations \cup {NoLocation}}

\* what requests.get(stream=True) can meet: status, and the body bytes the
\* server delivers before the first read returns
StreamReplies ==
    {Failure(e) : e \in {"ConnectionError", "Timeout"}}
        \cup {Response(s, NoLocation, n, Garbage) :
                s \in {200, 206, 404, 500}, n \in 0..MaxBody}

\* what requests.get(doh_url) can meet
DnsReplies ==
    {Failure(e) : e \in {"ConnectionError", "Timeout"}}
        \cup {Response(s, NoLocation, 0, b) :
                s \in {200, 500},
                b \in {Garbage, Text(JSON("object", <<NonObject>>))}}

-----------------------------------------------------------------------------
(* Standard output *)

NoLink == [base |-> "", user |-> "", pass |-> "", stream_id |-> 0]
Line(tag, who, n, text, link) ==
    [tag |-> tag, who |-> who, n |-> n, text |-> text, link |-> link]
Plain(tag, who) == Line(tag, who, 0, "", NoLink)
Count(tag, who, n) == Line(tag, who, n, "", NoLink)
Message(tag, who, text) == Line(tag, who, 0, text, NoLink)

-----------------------------------------------------------------------------
(* Library calls.  Each returns [exc, val]: exc names the exception raised *)
(* ("" when none), val is the value returned.                              *)

Returns(val) == [exc |-> "", val |-> val]
Raises(e) == [exc |-> e, val |-> 0]

Min(a, b) == IF a < b THEN a ELSE b

\* needle in hay, for Python strings
IsSubstring(needle, hay) ==
    \E i \in 0..(Len(hay) - Len(needle)) :
        SubSeq(hay, i + 1, i + Len(needle)) = needle

\* urlopen that hands back the body whatever the status
urlopen_any_status(reply) ==
    IF reply.kind = "fail" THEN Raises(reply.exc) ELSE Returns(reply.body)

\* urllib.request.urlopen(u, timeout=...): a failure or a status outside
\* 2xx raises
urlopen(reply) ==
    IF reply.kind = "fail" THEN Raises(reply.exc)
    ELSE IF reply.status \notin 200..299 THEN Raises("HTTPError")
    ELSE Returns(reply.body)

\* json.loads(resp.read().decode())
json_loads(body) ==
    IF body.wellformed THEN Returns(body.value) ELSE Raises("JSONDecodeError")

\* len(x) of a decoded value
len(v) ==
    IF v.type \in SizedTypes THEN Returns(Len(v.items)) ELSE Raises("TypeError")

\* s.get("name", "")
get_name(s) ==
    IF s.kind # "object" THEN Raises("AttributeError")
    ELSE IF s.name.tag = "absent" THEN Returns(Str(<<>>))
    ELSE Returns(s.name)

\* "MSNBC" in x
contains_msnbc(x) ==
    IF x.tag # "str" THEN Raises("TypeError")
    ELSE Returns(IsSubstring(MSNBC, x.text))

\* "MSNBC" in s.get("name", "")
matches(s) ==
    IF get_name(s).exc # "" THEN get_name(s) ELSE contains_msnbc(get_name(s).val)

\* msnbc = [s for s in streams if "MSNBC" in s.get("name", "")]
\* the comprehension raises at the first element whose test raises
msnbc_filter(v) ==
    LET bad == {i \in 1..Len(v.items) : matches(v.items[i]).exc # ""}
        first == CHOOSE i \in bad : \A j \in bad : i <= j
        keep(s) == matches(s).val
    IN  IF v.type \notin SizedTypes THEN Raises("TypeError")
        ELSE IF bad # {} THEN Raises(matches(v.items[first]).exc)
        ELSE Returns(SelectSeq(v.items, keep))

\* msnbc[:3]
shown(msnbc) == SubSeq(msnbc, 1, Min(Len(msnbc), MaxShown))

\* f"{acc['url']}/live/{acc['user']}/{acc['pass']}/{stream_id}.ts"
play_url(a, s) ==
    [base |-> a.url, user |-> a.user, pass |-> a.pass, stream_id |-> s.stream_id]

\* a handler for the failures of the network only
Handles_network(e) ==
    e \in {"URLError", "timeout", "HTTPError", "ConnectionError", "Timeout"}

\* except Exception as e: every exception a request, a decode or the
\* processing of a result raises derives from Exception
Exceptions ==
    {"URLError", "timeout", "HTTPError", "JSONDecodeError", "TypeError",
     "AttributeError", "ConnectionError", "Timeout", "StopIteration"}
Handles(e) == e \in Exceptions

\* a handler that prints its line and raises again
except_reraise(e, line, resume) == [pc |-> "crashed", lines |-> <<line>>]

\* the handler of a try block: a handled exception prints the handler's line
\* and execution resumes after the try statement; an exception no handler
\* takes ends the script with a traceback
except(e, line, resume) ==
    IF Handles(e) THEN [pc |-> resume, lines |-> <<line>>]
    ELSE [pc |-> "crashed", lines |-> <<>>]

-----------------------------------------------------------------------------
(* Requests *)

Request(method, u, username, password, action) ==
    [method |-> method, url |-> u, username |-> username,
     password |-> password, action |-> action]

\* f"{acc['url']}/player_api.php?username=...&password=...&action=..."
player_api(a, action) == Request("GET", a.url, a.user, a.pass, action)
cat_url(a) == player_api(a, "get_live_categories")
streams_url(a) == player_api(a, "get_live_streams")

-----------------------------------------------------------------------------
(* scripts/benchmark_playlists.py *)

\* print("=== Matrix IPTV Performance Benchmark (Python) ===")
Banner ==
    /\ script = "benchmark" /\ pc = "banner"
    /\ out' = Append(out, Plain("Banner", ""))
    /\ pc' = "for"
    /\ UNCHANGED <<script, acc, reqs, wire, conn, bytesRead>>

\* for acc in accounts: print(f"\nProcessing: {acc['name']}")
ForAccounts ==
    /\ script = "benchmark" /\ pc = "for" /\ acc < Len(accounts)
    /\ acc' = acc + 1
    /\ out' = Append(out, Plain("Processing", accounts[acc + 1].name))
    /\ pc' = "categories"
    /\ UNCHANGED <<script, reqs, wire, conn, bytesRead>>

\* the categories reply needs no elements: only len(cats) is used
CategoryReplies(n) ==
    {r \in UrlopenReplies(n) :
        \A i \in 1..Len(r.body.value.items) : r.body.value.items[i] = NonObject}

\* the replies of a full run, and those of one streams request on its own
BenchmarkCategoryReplies == CategoryReplies(MaxItems)
BenchmarkStreamReplies == UrlopenReplies(MaxItems)
FilterStreamReplies == UrlopenReplies(MaxFilterLen)

\* the categories stage without the count of what it decoded
categories_uncounted(reply) ==
    LET resp == urlopen(reply)
        cats == json_loads(resp.val)
    IN  IF resp.exc # "" THEN resp
        ELSE IF cats.exc # "" THEN cats
        ELSE Returns(0)

\* cats = json.loads(resp.read().decode()); len(cats)
categories(reply) ==
    LET resp == urlopen(reply)
        cats == json_loads(resp.val)
    IN  IF resp.exc # "" THEN resp
        ELSE IF cats.exc # "" THEN cats
        ELSE len(cats.val)

\* 1. Categories: the request, the decode and the count line (the count and
\* the duration it shows are not kept)
Categories ==
    /\ script = "benchmark" /\ pc = "categories"
    /\ \E reply \in BenchmarkCategoryReplies :
        LET a == accounts[acc]
            n == categories(reply)
            h == except(n.exc, Plain("Error", a.name), "for")
        IN  /\ reqs' = Append(reqs, cat_url(a))
            /\ wire' = reply
            /\ IF n.exc = ""
                 THEN /\ out' = Append(out, Plain("Categories", a.name))
                      /\ pc' = "streams"
                 ELSE /\ out' = out \o h.lines
                      /\ pc' = h.pc
    /\ UNCHANGED <<script, acc, conn, bytesRead>>

\* the two lines printed for one shown stream
stream_lines(a, s) ==
    << Count("Item", a.name, s.stream_id),
       Line("Link", a.name, 0, "", play_url(a, s)) >>

RECURSIVE shown_lines(_, _)
shown_lines(a, ss) ==
    IF ss = <<>> THEN <<>>
    ELSE stream_lines(a, Head(ss)) \o shown_lines(a, Tail(ss))

\* an else branch that prints nothing
not_found_lines_silent(a) == <<>>

\* else: print("MSNBC NOT FOUND.")
not_found_lines(a) == <<Plain("NotFound", a.name)>>

\* the report of the found streams falling through into the else branch
found_lines_fallthrough(a, msnbc) ==
    <<Count("Found", a.name, Len(msnbc))>> \o shown_lines(a, shown(msnbc))
        \o not_found_lines(a)

\* if msnbc: the count line and the lines of msnbc[:3]
found_lines(a, msnbc) ==
    <<Count("Found", a.name, Len(msnbc))>> \o shown_lines(a, shown(msnbc))

\* the statements of the streams block, in order, up to the first one that
\* raises: [exc, lines] with the lines printed on the way
streams_block(a, reply) ==
    LET resp == urlopen(reply)
        streams == json_loads(resp.val)
        n == len(streams.val)
        msnbc == msnbc_filter(streams.val)
        searching == <<Plain("Searching", a.name)>>
        counted == Append(searching, Plain("Streams", a.name))
    IN  IF resp.exc # "" THEN [exc |-> resp.exc, lines |-> searching]
        ELSE IF streams.exc # "" THEN [exc |-> streams.exc, lines |-> searching]
        ELSE IF n.exc # "" THEN [exc |-> n.exc, lines |-> searching]
        ELSE IF msnbc.exc # "" THEN [exc |-> msnbc.exc, lines |-> counted]
        ELSE IF msnbc.val # <<>>
               THEN [exc |-> "", lines |-> counted \o found_lines(a, msnbc.val)]
        ELSE [exc |-> "", lines |-> counted \o not_found_lines(a)]

\* 2. Streams & MSNBC: the search line, the request, the decode, the count
\* line (count and duration not kept), the filter and its report, against a
\* server that answers with one of replies
Streams(replies) ==
    /\ script = "benchmark" /\ pc = "streams"
    /\ \E reply \in replies :
        LET a == accounts[acc]
            b == streams_block(a, reply)
            h == except(b.exc, Plain("Error", a.name), "for")
        IN  /\ reqs' = Append(reqs, streams_url(a))
            /\ wire' = reply
            /\ IF b.exc = ""
                 THEN /\ out' = out \o b.lines
                      /\ pc' = "for"
                 ELSE /\ out' = out \o b.lines \o h.lines
                      /\ pc' = h.pc
    /\ UNCHANGED <<script, acc, conn, bytesRead>>

\* print("\n=== Benchmark Complete ===")
Complete ==
    /\ script = "benchmark" /\ pc = "for" /\ acc = Len(accounts)
    /\ out' = Append(out, Plain("Complete", ""))
    /\ pc' = "done"
    /\ UNCHANGED <<script, acc, reqs, wire, conn, bytesRead>>

-----------------------------------------------------------------------------
(* debug_redirect.py *)

\* the default of requests.get, given to requests.head
allow_redirects_default == TRUE

\* requests.head(u, headers=headers, allow_redirects=False, timeout=5)
allow_redirects == FALSE

RedirectStatuses == {301, 302, 303, 307, 308}

\* requests.head behind an adapter that sends a failed request once more
requests_head_retry(u, first, second) ==
    IF first.kind = "fail"
      THEN [sent |-> << Request("HEAD", u, "", "", ""),
                        Request("HEAD", u, "", "", "") >>,
            reply |-> second]
      ELSE [sent |-> <<Request("HEAD", u, "", "", "")>>, reply |-> first]

\* requests.head: the requests it sends and the reply it hands back.  With
\* allow_redirects a 3xx reply carrying a Location is followed once more.
requests_head(u, first, second) ==
    LET follow == /\ allow_redirects
                  /\ first.kind = "http"
                  /\ first.status \in RedirectStatuses
                  /\ first.location # NoLocation
    IN  IF follow
          THEN [sent |-> << Request("HEAD", u, "", "", ""),
                            Request("HEAD", first.location, "", "", "") >>,
                reply |-> second]
          ELSE [sent |-> <<Request("HEAD", u, "", "", "")>>, reply |-> first]

\* the lines check() prints for a response
response_lines(name, r) ==
    << Count("Status", name, r.status),
       IF r.location # NoLocation
         THEN Message("Location", name, r.location)
         ELSE Plain("NoLocation", name) >>

\* check(name, u), called for TS and then for M3U8
check ==
    /\ script = "redirect" /\ pc = "calls" /\ acc < Len(checks)
    /\ \E first \in HeadReplies, second \in HeadReplies :
        LET c == checks[acc + 1]
            x == requests_head(c.u, first, second)
            r == x.reply
            after == IF acc + 1 = Len(checks) THEN "done" ELSE "calls"
            h == except(r.exc, Plain("Error", c.name), after)
            checking == Append(out, Plain("Checking", c.name))
        IN  /\ reqs' = reqs \o x.sent
            /\ wire' = r
            /\ IF r.kind = "http"
                 THEN /\ out' = checking \o response_lines(c.name, r)
                      /\ pc' = after
                 ELSE /\ out' = checking \o h.lines
                      /\ pc' = h.pc
    /\ acc' = acc + 1
    /\ UNCHANGED <<script, conn, bytesRead>>

-----------------------------------------------------------------------------
(* debug_stream.py *)

\* r.content: the whole body
iter_content_all(avail) ==
    IF avail = 0 THEN Raises("StopIteration") ELSE Returns(avail)

\* next(r.iter_content(chunk_size=64)): the first chunk, of at most
\* chunk_size bytes; a body that delivers nothing ends the iterator
iter_content_next(avail) ==
    IF avail = 0 THEN Raises("StopIteration")
    ELSE Returns(Min(avail, chunk_size))

\* if r.status_code == 200
is_ok(status) == status = 200

\* requests.get(url, headers=headers, stream=True, timeout=10), the status
\* and header lines
StreamGet ==
    /\ script = "stream" /\ pc = "get"
    /\ \E reply \in StreamReplies :
        LET h == except(reply.exc, Plain("EXCEPTION", ""), "done")
            testing == Append(out, Plain("Testing", ""))
        IN  /\ reqs' = Append(reqs, Request("GET", url, "", "", ""))
            /\ wire' = reply
            /\ IF reply.kind = "http"
                 THEN /\ out' = testing \o << Count("Status", "", reply.status),
                                              Plain("Headers", "") >>
                      /\ conn' = "open"
                      /\ pc' = "body"
                 ELSE /\ out' = testing \o h.lines
                      /\ conn' = conn
                      /\ pc' = h.pc
    /\ UNCHANGED <<script, acc, bytesRead>>

\* the body of the with block after the headers, and the release of the
\* connection when the block is left
StreamBody ==
    /\ script = "stream" /\ pc = "body"
    /\ LET chunk == iter_content_next(wire.avail)
           h == except(chunk.exc, Plain("EXCEPTION", ""), "done")
           reading == Append(out, Plain("Reading", ""))
       IN  IF is_ok(wire.status)
             THEN IF chunk.exc = ""
                    THEN /\ bytesRead' = bytesRead + chunk.val
                         /\ out' = reading \o <<Count("BytesLen", "", chunk.val)>>
                                       \o (IF chunk.val > 0
                                             THEN <<Plain("SUCCESS", "")>>
                                             ELSE <<>>)
                         /\ pc' = "done"
                    ELSE /\ bytesRead' = bytesRead
                         /\ out' = reading \o h.lines
                         /\ pc' = h.pc
             ELSE /\ bytesRead' = bytesRead
                  /\ out' = Append(out, Count("FAILURE", "", wire.status))
                  /\ pc' = "done"
    /\ conn' = "released"
    /\ UNCHANGED <<script, acc, reqs, wire>>

-----------------------------------------------------------------------------
(* debug_dns.py *)

\* r = requests.get(doh_url, timeout=5); print(r.json())
DnsQuery ==
    /\ script = "dns" /\ pc = "query"
    /\ \E reply \in DnsReplies :
        LET r == IF reply.kind = "fail" THEN Raises(reply.exc)
                 ELSE json_loads(reply.body)
            h == except(r.exc, Plain("Error", ""), "done")
            querying == Append(out, Plain("Querying", ""))
        IN  /\ reqs' = Append(reqs, Request("GET", doh_url, "", "", ""))
            /\ wire' = reply
            /\ IF r.exc = ""
                 THEN /\ out' = Append(querying, Plain("Json", ""))
                      /\ pc' = "done"
                 ELSE /\ out' = querying \o h.lines
                      /\ pc' = h.pc
    /\ UNCHANGED <<script, acc, conn, bytesRead>>

-----------------------------------------------------------------------------
(* Specifications *)

\* the first statement of each script
Entry(s) ==
    CASE s = "benchmark" -> "banner"
      [] s = "redirect" -> "calls"
      [] s = "stream" -> "get"
      [] s = "dns" -> "query"

Init ==
    /\ script \in Scripts
    /\ pc = Entry(script)
    /\ acc = 0
    /\ out = <<>>
    /\ reqs = <<>>
    /\ wire = NoReply
    /\ conn = "none"
    /\ bytesRead = 0

Next ==
    \/ Banner
    \/ ForAccounts
    \/ Categories
    \/ Streams(BenchmarkStreamReplies)
    \/ Complete
    \/ check
    \/ StreamGet
    \/ StreamBody
    \/ DnsQuery

Spec == Init /\ [][Next]_vars

\* a script is one sequential thread: its next statement always runs
FairSpec == Spec /\ WF_vars(Next)

\* The benchmark at the streams block of its first account, against a server
\* whose containers hold up to MaxFilterLen elements.
FilterInit ==
    /\ script = "benchmark"
    /\ pc = "streams"
    /\ acc = 1
    /\ wire = Response(200, NoLocation, 0, Text(JSON("array", <<>>)))
    /\ reqs = <<cat_url(accounts[1])>>
    /\ out = << Plain("Banner", ""),
                Plain("Processing", accounts[1].name),
                Plain("Categories", accounts[1].name) >>
    /\ conn = "none"
    /\ bytesRead = 0

FilterNext == Streams(FilterStreamReplies)

FilterSpec == FilterInit /\ [][FilterNext]_vars

-----------------------------------------------------------------------------
(* Vocabulary of the properties *)

Last(q) == q[Len(q)]
Tags(q) == [i \in 1..Len(q) |-> q[i].tag]
Who(q) == [i \in 1..Len(q) |-> q[i].who]

\* the lines of out that carry the name who, in order
LinesOf(who) ==
    LET named(l) == l.who = who IN SelectSeq(out, named)

\* the lines of out with one of the tags, in order
Tagged(q, tags) ==
    LET tagged(l) == l.tag \in tags IN SelectSeq(q, tagged)

\* the requests of reqs with the action, in order
WithAction(action) ==
    LET has(r) == r.action = action IN SelectSeq(reqs, has)

Outcomes == {"Found", "NotFound", "Error"}

\* the names of the targets of the running script, in order
Targets ==
    IF script = "benchmark" THEN [i \in 1..Len(accounts) |-> accounts[i].name]
    ELSE [i \in 1..Len(checks) |-> checks[i].name]

\* how many targets the run is through with
Completed == IF pc \in {"categories", "streams"} THEN acc - 1 ELSE acc

\* a reply that is a 2xx response with a JSON body
DecodedReply(r) ==
    r.kind = "http" /\ r.status \in 200..299 /\ r.body.wellformed

\* an element the filter can test: an object whose name is a string or missing
Testable(s) == s.kind = "object" /\ s.name.tag # "null"

\* an element whose name is a string containing MSNBC
IsMsnbc(s) ==
    s.kind = "object" /\ s.name.tag = "str" /\ IsSubstring(MSNBC, s.name.text)

-----------------------------------------------------------------------------
(* C1 *)

\* C1: a run produces exactly one result per target (one outcome line per
\* account in the benchmark, one status-or-error line per URL in the
\* redirect check), in the order of the target list; when the run is done
\* there are as many results as targets.
C1_OneResultPerTarget ==
    script \in {"benchmark", "redirect"} =>
        /\ Who(Tagged(out, Outcomes \cup {"Status"})) = SubSeq(Targets, 1, Completed)
        /\ pc = "done" => Completed = Len(Targets)

\* the benchmark is done and its accounts met all three outcomes
C1_Witness ==
    /\ script = "benchmark" /\ pc = "done"
    /\ \A t \in Outcomes : \E i \in 1..Len(out) : out[i].tag = t

-----------------------------------------------------------------------------
(* C2 *)

\* this step issues the streams request of the current account
StreamsIssued ==
    /\ script = "benchmark"
    /\ Len(reqs') = Len(reqs) + 1
    /\ Last(reqs') = streams_url(accounts[acc])

\* the latest request is the categories request of the current account
AfterCategoriesOf(a) == reqs # <<>> /\ Last(reqs) = cat_url(a)

\* C2 as stated: the streams request of an account is issued only if the
\* account's categories request succeeded and its body decoded as a JSON
\* array.
C2_StreamsOnlyAfterArray ==
    [][StreamsIssued =>
          /\ AfterCategoriesOf(accounts[acc])
          /\ DecodedReply(wire)
          /\ wire.body.value.type = "array"]_vars

\* C2 as amended: the streams request of an account is issued only if the
\* account's categories request succeeded and its body decoded as a JSON
\* value that has a length (an array, an object or a string); after a
\* failed request, a non-2xx status, a non-JSON body or a JSON number,
\* boolean or null no streams request is issued.
C2_StreamsOnlyAfterSized ==
    [][StreamsIssued =>
          /\ AfterCategoriesOf(accounts[acc])
          /\ DecodedReply(wire)
          /\ wire.body.value.type \in {"array", "object", "string"}]_vars

\* the categories stage decoded a JSON object and the streams stage is next
C2_Witness ==
    /\ script = "benchmark" /\ pc = "streams"
    /\ AfterCategoriesOf(accounts[acc])
    /\ DecodedReply(wire)
    /\ wire.body.value.type = "object"

-----------------------------------------------------------------------------
(* C3 *)

\* a categories reply with a status outside 2xx or a body that is not JSON
BadCategoriesReply(r) ==
    r.kind = "http" /\ (r.status \notin 200..299 \/ ~r.body.wellformed)

\* C3: when an account's categories request returns a non-JSON body or a
\* non-2xx status, the account's lines are its header and an error, and no
\* streams request is issued for the account: not in that step, and never
\* for an account whose first report is an error.
C3_BadCategoriesIsError ==
    script = "benchmark" =>
        /\ \A i \in 1..Len(accounts) :
            (AfterCategoriesOf(accounts[i]) /\ BadCategoriesReply(wire)) =>
                /\ Tags(LinesOf(accounts[i].name)) = <<"Processing", "Error">>
                /\ \A j \in 1..Len(reqs) : reqs[j] # streams_url(accounts[i])
        /\ \A i \in 1..Len(accounts) :
            LET mine == Tags(LinesOf(accounts[i].name))
            IN  (Len(mine) >= 2 /\ mine[2] = "Error") =>
                    \A j \in 1..Len(reqs) : reqs[j] # streams_url(accounts[i])

\* a later account got a 404 carrying JSON at its categories stage, after an
\* earlier account got a non-JSON body
C3_Witness ==
    /\ script = "benchmark" /\ acc > 1
    /\ AfterCategoriesOf(accounts[acc])
    /\ wire.kind = "http" /\ wire.status = 404 /\ wire.body.wellformed
    /\ Tags(LinesOf(accounts[1].name)) = <<"Processing", "Error">>

-----------------------------------------------------------------------------
(* C4 *)

\* C4: no outcome of an account stops the loop: the script never ends in a
\* traceback, the categories requests issued so far are those of the
\* accounts begun so far, in list order, and when the benchmark is done the
\* categories request of every account has been issued.
C4_EveryAccountProbed ==
    script = "benchmark" =>
        /\ pc # "crashed"
        /\ WithAction("get_live_categories") =
               [i \in 1..(IF pc = "categories" THEN acc - 1 ELSE acc) |->
                   cat_url(accounts[i])]
        /\ pc = "done" => acc = Len(accounts)

\* the last account's categories request is out although every account
\* before it ended in an error
C4_Witness ==
    /\ script = "benchmark" /\ acc = Len(accounts)
    /\ AfterCategoriesOf(accounts[acc])
    /\ \A i \in 1..(Len(accounts) - 1) :
           Last(Tags(LinesOf(accounts[i].name))) = "Error"
    /\ \E i \in 1..(Len(accounts) - 1) :
           "Streams" \in {Tags(LinesOf(accounts[i].name))[j] :
                             j \in 1..Len(LinesOf(accounts[i].name))}

-----------------------------------------------------------------------------
(* C5 *)

\* C5: no error escapes a script and every run proceeds to its end: no
\* script ever ends in a traceback, and every script eventually reaches its
\* last statement (the benchmark its "Benchmark Complete" line).
C5_RunsToCompletion ==
    /\ [](pc # "crashed")
    /\ <>(pc = "done" /\ (script = "benchmark" => Last(out).tag = "Complete"))

\* the benchmark completed although one of its accounts failed while its
\* stream list was filtered
C5_Witness ==
    /\ script = "benchmark" /\ pc = "done"
    /\ Last(out).tag = "Complete"
    /\ \E i \in 2..Len(out) : out[i].tag = "Error" /\ out[i - 1].tag = "Streams"

-----------------------------------------------------------------------------
(* C6 *)

\* C6: there is no retry: no request is ever issued twice, and a finished
\* run has issued one categories request per account and at most one
\* streams request per account, one HEAD per URL, one stream GET, or one
\* DNS lookup.
C6_NoRetry ==
    /\ \A i \in 1..Len(reqs) : \A j \in 1..Len(reqs) : reqs[i] = reqs[j] => i = j
    /\ pc = "done" =>
        CASE script = "benchmark" ->
                /\ Len(WithAction("get_live_categories")) = Len(accounts)
                /\ Len(WithAction("get_live_streams")) <= Len(accounts)
          [] script = "redirect" ->
                reqs = << Request("HEAD", url_ts, "", "", ""),
                          Request("HEAD", url_m3u8, "", "", "") >>
          [] script = "stream" -> reqs = <<Request("GET", url, "", "", "")>>
          [] script = "dns" -> reqs = <<Request("GET", doh_url, "", "", "")>>

\* the redirect check is done and its first request had failed
C6_Witness ==
    /\ script = "redirect" /\ pc = "done"
    /\ Tags(LinesOf("TS")) = <<"Checking", "Error">>
    /\ Len(reqs) = 2

-----------------------------------------------------------------------------
(* C7 *)

\* the elements of a decoded list whose name contains MSNBC, in list order
Matching(v) == SelectSeq(v.items, IsMsnbc)

\* the play URLs of the Link lines of an account, in order
LinksOf(who) ==
    LET links == Tagged(LinesOf(who), {"Link"})
    IN  [i \in 1..Len(links) |-> links[i].link]

\* C7 as stated: after a successful streams request that decoded a list of
\* objects, whatever their names (a string, missing or null), the account
\* shows the play URLs of the first min(3, k) elements whose name contains
\* MSNBC, in list order, k being their number; with k = 0 it reports that
\* nothing was found.
C7_FirstThreeMatches ==
    (/\ script = "benchmark" /\ pc = "for" /\ acc >= 1
     /\ reqs # <<>> /\ Last(reqs) = streams_url(accounts[acc])
     /\ DecodedReply(wire)
     /\ wire.body.value.type = "array"
     /\ \A i \in 1..Len(wire.body.value.items) :
            wire.body.value.items[i].kind = "object")
    => LET a == accounts[acc]
           m == Matching(wire.body.value)
           k == Len(m)
       IN  /\ LinksOf(a.name) = [i \in 1..Min(3, k) |-> play_url(a, m[i])]
           /\ k = 0 => Last(out) = Plain("NotFound", a.name)
           /\ k > 0 => "Found" \in {Tags(LinesOf(a.name))[i] :
                                       i \in 1..Len(LinesOf(a.name))}

-----------------------------------------------------------------------------
(* C8 *)

-----------------------------------------------------------------------------
(* C9 *)

\* the HEAD request of the i-th check call
HeadOf(i) == Request("HEAD", checks[i].u, "", "", "")

\* C9: the HEAD probe never follows a redirect: the requests issued are one
\* HEAD per URL checked and nothing else; the lines of the latest check are
\* its status (302 for a 302) and the Location it was given, or that there
\* is none; a failed request leaves an error and neither a status nor a
\* Location.
C9_HeadDoesNotFollow ==
    script = "redirect" =>
        /\ reqs = [i \in 1..acc |-> HeadOf(i)]
        /\ acc >= 1 =>
            LET name == checks[acc].name
                mine == LinesOf(name)
            IN  /\ wire.kind = "http" =>
                       mine = << Plain("Checking", name),
                                 Count("Status", name, wire.status),
                                 IF wire.location # NoLocation
                                   THEN Message("Location", name, wire.location)
                                   ELSE Plain("NoLocation", name) >>
                /\ wire.kind = "fail" =>
                       mine = <<Plain("Checking", name), Plain("Error", name)>>

\* a check got a 302 with a Location
C9_Witness ==
    /\ script = "redirect" /\ acc >= 1
    /\ wire.kind = "http" /\ wire.status = 302 /\ wire.location # NoLocation
    /\ Len(reqs) = acc

-----------------------------------------------------------------------------
(* C10 *)

\* the categories stage of the latest reply failed
CategoriesFailed(r) ==
    ~DecodedReply(r) \/ r.body.value.type \notin {"array", "object", "string"}

\* the streams stage or the filter of the latest reply failed
StreamsFailed(r) ==
    \/ ~DecodedReply(r)
    \/ r.body.value.type \notin {"array", "object", "string"}
    \/ \E i \in 1..Len(r.body.value.items) : ~Testable(r.body.value.items[i])

\* C10: every account the benchmark is through with has exactly one of the
\* three outcomes (found streams, not found, error); the account of the
\* latest request reports an error exactly when that stage failed (request,
\* decode or filter), whatever it reported before; and a streams count is
\* only ever reported after the account's categories count.
C10_OneOutcomePerAccount ==
    script = "benchmark" =>
        /\ \A i \in 1..Len(accounts) :
            LET mine == Tags(LinesOf(accounts[i].name))
                ends == {j \in 1..Len(mine) : mine[j] \in Outcomes}
            IN  /\ Cardinality(ends) = IF i <= Completed THEN 1 ELSE 0
                /\ \A j \in 1..Len(mine) :
                       mine[j] = "Streams" =>
                           \E h \in 1..(j - 1) : mine[h] = "Categories"
        /\ (acc >= 1 /\ AfterCategoriesOf(accounts[acc])) =>
               (Tags(LinesOf(accounts[acc].name)) = <<"Processing", "Error">>
                   <=> CategoriesFailed(wire))
        /\ (acc >= 1 /\ reqs # <<>> /\ Last(reqs) = streams_url(accounts[acc])) =>
               (Last(Tags(LinesOf(accounts[acc].name))) = "Error"
                   <=> StreamsFailed(wire))

\* an account reported its categories count and its streams count and still
\* ended in the error outcome
C10_Witness ==
    /\ script = "benchmark" /\ pc = "done"
    /\ \E i \in 1..Len(accounts) :
           Tags(LinesOf(accounts[i].name)) =
               <<"Processing", "Categories", "Searching", "Streams", "Error">>

====
